---- MODULE Spec2Model ----
(***************************************************************************)
(* Ladybug Runner (src/src/main.rs): the frame loop of main, Player and     *)
(* Obstacle.                                                                *)
(*                                                                          *)
(* The f32 quantities of the program are kept as exact fixed-point          *)
(* integers:                                                                *)
(*   time      (dt, spawn_t, next_spawn)        in 1/TICKS second           *)
(*   length    (pos, size, sw, sh, ground_y)    in 1/LEN pixel              *)
(*   velocity  (vel, speed)                     in 1/LEN pixel per second   *)
(*   score     (score, hi_score)                in 1/(LEN*TICKS*10) point   *)
(* With these units every product and quotient of the program is an exact   *)
(* integer, so the arithmetic is that of the reals; f32 rounding is not     *)
(* modelled.                                                                *)
(***************************************************************************)
EXTENDS Integers, Sequences, FiniteSets

VARIABLES state, score, hi_score, spawn_t, next_spawn, speed, obstacles,
          player, dt, sw, sh, edge_pressed, touch_active, jump_pressed,
          m_pressed, tested, frames, resizes

vars == <<state, score, hi_score, spawn_t, next_spawn, speed, obstacles,
          player, dt, sw, sh, edge_pressed, touch_active, jump_pressed,
          m_pressed, tested, frames, resizes>>

\* Units per second and per pixel of the fixed-point representation.
TICKS == 10
LEN == 100

\* The constants of main.rs, in seconds and pixels as written there
\* (SPAWN_MIN, SPAWN_MAX and the 0.5 floor in tenths of a second).
GRAVITY == 1800
JUMP_VEL == -800
GROUND_H == 80
PLAYER_W == 60
PLAYER_H == 60
BASE_SPEED == 30
SPEED_GROWTH == 8
MAX_SPEED == 140
SPAWN_MIN == 9
SPAWN_MAX == 18
SPAWN_FLOOR == 5
OBSTACLE_W_MIN == 40
OBSTACLE_W_MAX == 70
OBSTACLE_H_MIN == 50
OBSTACLE_H_MAX == 120
SPAWN_AHEAD == 40
OFFSCREEN_X == -10
PLAYER_INSET == 8
OBSTACLE_INSET == 4

\* Bounds of the exploration: frames of the loop, and window resizes.
MaxFrames == 5
MaxResizes == 1

\* What the host supplies each frame: get_frame_time() in 1/TICKS s (a
\* slow frame, one and two seconds, and a stall of fifteen), and the window
\* (screen_width(), screen_height()) in pixels.
DtSet == {3, 10, 20, 150}

ScreenSet == {<<100, 200>>, <<200, 400>>}

\* What a frame can read for the two terms of jump_pressed, as
\* <<key or button went down, a touch point is on the screen>>.  Both at
\* once gives the same jump_pressed as either alone and is left out.
JumpInputs == {<<FALSE, FALSE>>, <<TRUE, FALSE>>, <<FALSE, TRUE>>}

Px(n) == n * LEN

Min(a, b) == IF a <= b THEN a ELSE b
Max(a, b) == IF a >= b THEN a ELSE b

\* rand::gen_range(low, high): the two ends of the range stand for the draw.
GenRange(low, high) == {low, high}

Menu == "Menu"
Playing == "Playing"
GameOver == "GameOver"
State == {Menu, Playing, GameOver}

\* Option<Player>::None
None == [none |-> TRUE]

----------------------------------------------------------------------------
\* Player

PlayerNew(screen_w, ground_y) ==
    [pos |-> [x |-> (screen_w * 2) \div 10, y |-> ground_y - Px(PLAYER_H)],
     vel |-> [x |-> 0, y |-> 0],
     on_ground |-> TRUE]

PlayerRect(p) ==
    [x |-> p.pos.x + Px(PLAYER_INSET),
     y |-> p.pos.y + Px(PLAYER_INSET),
     w |-> Px(PLAYER_W) - Px(2 * PLAYER_INSET),
     h |-> Px(PLAYER_H) - Px(2 * PLAYER_INSET)]

\* PlayerUpdate with the snap `self.pos.y = ground_y - PLAYER_H` left out.
PlayerUpdateNoSnap(p, d, ground_y, jump) ==
    LET jumps == jump /\ p.on_ground
        vy0 == IF jumps THEN Px(JUMP_VEL) ELSE p.vel.y
        og0 == IF jumps THEN FALSE ELSE p.on_ground
        vy1 == vy0 + (Px(GRAVITY) * d) \div TICKS
        y1  == p.pos.y + (vy1 * d) \div TICKS
    IN  IF y1 + Px(PLAYER_H) >= ground_y
        THEN [pos |-> [x |-> p.pos.x, y |-> y1],
              vel |-> [x |-> p.vel.x, y |-> 0],
              on_ground |-> TRUE]
        ELSE [pos |-> [x |-> p.pos.x, y |-> y1],
              vel |-> [x |-> p.vel.x, y |-> vy1],
              on_ground |-> og0]

\* PlayerUpdate with gravity added before the jump sets vel.y, so the
\* jump's first update carries no gravity.
PlayerUpdateGravityFirst(p, d, ground_y, jump) ==
    LET jumps == jump /\ p.on_ground
        og0 == IF jumps THEN FALSE ELSE p.on_ground
        vy1 == IF jumps THEN Px(JUMP_VEL)
               ELSE p.vel.y + (Px(GRAVITY) * d) \div TICKS
        y1  == p.pos.y + (vy1 * d) \div TICKS
    IN  IF y1 + Px(PLAYER_H) >= ground_y
        THEN [pos |-> [x |-> p.pos.x, y |-> ground_y - Px(PLAYER_H)],
              vel |-> [x |-> p.vel.x, y |-> 0],
              on_ground |-> TRUE]
        ELSE [pos |-> [x |-> p.pos.x, y |-> y1],
              vel |-> [x |-> p.vel.x, y |-> vy1],
              on_ground |-> og0]

PlayerUpdate(p, d, ground_y, jump) ==
    LET jumps == jump /\ p.on_ground
        vy0 == IF jumps THEN Px(JUMP_VEL) ELSE p.vel.y
        og0 == IF jumps THEN FALSE ELSE p.on_ground
        vy1 == vy0 + (Px(GRAVITY) * d) \div TICKS
        y1  == p.pos.y + (vy1 * d) \div TICKS
    IN  IF y1 + Px(PLAYER_H) >= ground_y
        THEN [pos |-> [x |-> p.pos.x, y |-> ground_y - Px(PLAYER_H)],
              vel |-> [x |-> p.vel.x, y |-> 0],
              on_ground |-> TRUE]
        ELSE [pos |-> [x |-> p.pos.x, y |-> y1],
              vel |-> [x |-> p.vel.x, y |-> vy1],
              on_ground |-> og0]

----------------------------------------------------------------------------
\* Obstacle

\* ObstacleNew that starts every obstacle at BASE_SPEED, not at `speed`.
ObstacleNewBaseSpeed(x, ground_y, spd, w, h) ==
    [pos |-> [x |-> x, y |-> ground_y - h],
     size |-> [x |-> w, y |-> h],
     speed |-> Px(BASE_SPEED)]

ObstacleNew(x, ground_y, spd, w, h) ==
    [pos |-> [x |-> x, y |-> ground_y - h],
     size |-> [x |-> w, y |-> h],
     speed |-> spd]

ObstacleRect(o) ==
    [x |-> o.pos.x + Px(OBSTACLE_INSET),
     y |-> o.pos.y + Px(OBSTACLE_INSET),
     w |-> o.size.x - Px(2 * OBSTACLE_INSET),
     h |-> o.size.y - Px(2 * OBSTACLE_INSET)]

\* ObstacleUpdate that takes the session's speed for the obstacle's own.
ObstacleUpdateSessionSpeed(o, d) ==
    [o EXCEPT !.speed = speed',
              !.pos.x = o.pos.x - (speed' * d) \div TICKS]

\* ObstacleUpdate that leaves the obstacle where it is.
ObstacleUpdateNoMove(o, d) == o

ObstacleUpdate(o, d) ==
    [o EXCEPT !.pos.x = o.pos.x - (o.speed * d) \div TICKS]

\* Offscreen that tests the left edge, not the right one.
OffscreenLeftEdge(o) == o.pos.x < Px(OFFSCREEN_X)

Offscreen(o) == o.pos.x + o.size.x < Px(OFFSCREEN_X)

\* macroquad's Rect::overlaps(&self, other).
Overlaps(a, b) ==
    /\ a.x <= b.x + b.w
    /\ a.x + a.w >= b.x
    /\ a.y <= b.y + b.h
    /\ a.y + a.h >= b.y

----------------------------------------------------------------------------
\* main: the state before the first frame.  The locals of the loop body
\* (dt, sw, sh, jump_pressed, m_pressed) hold the values read in the latest
\* frame, edge_pressed and touch_active the terms of jump_pressed:
\* `is_key_pressed(KeyCode::Space) || is_mouse_button_pressed(MouseButton::Left)`
\* (true on the frame the key or button goes down) and
\* `!touches().is_empty()` (true while a touch point is on the screen); tested is the obstacle collection as the for loop of the latest
\* Playing tick left it, before retain.

Init ==
    /\ state = Menu
    /\ score = 0
    /\ hi_score = 0
    /\ spawn_t = 0
    /\ next_spawn \in GenRange(SPAWN_MIN, SPAWN_MAX)
    /\ speed = Px(BASE_SPEED)
    /\ obstacles = <<>>
    /\ player = None
    /\ dt = 0
    /\ \E scr \in ScreenSet : sw = Px(scr[1]) /\ sh = Px(scr[2])
    /\ edge_pressed = FALSE
    /\ touch_active = FALSE
    /\ jump_pressed = FALSE
    /\ m_pressed = FALSE
    /\ tested = <<>>
    /\ frames = 0
    /\ resizes = 0

\* let jump_pressed = is_key_pressed(Space) || is_mouse_button_pressed(Left)
\*                    || !touches().is_empty();
JumpPressed(edge, touch) == edge \/ touch

\* The head of the loop body: the frame's inputs are read.  m is
\* `is_key_pressed(KeyCode::M)`, which only the GameOver branch reads; the
\* other branches pass FALSE.
ReadInputs(d, scr, edge, touch, m) ==
    /\ frames < MaxFrames
    /\ frames' = frames + 1
    /\ resizes' = (IF Px(scr[1]) = sw /\ Px(scr[2]) = sh
                   THEN resizes ELSE resizes + 1)
    /\ resizes' <= MaxResizes
    /\ dt' = d
    /\ sw' = Px(scr[1])
    /\ sh' = Px(scr[2])
    /\ edge_pressed' = edge
    /\ touch_active' = touch
    /\ jump_pressed' = JumpPressed(edge, touch)
    /\ m_pressed' = m

GroundY(screen_h) == screen_h - Px(GROUND_H)

\* MenuStart with `player = Some(Player::new(sw, ground_y))` left out.
MenuStartNoPlayer(screen_w, ground_y, ns) ==
    /\ score' = 0
    /\ speed' = Px(BASE_SPEED)
    /\ obstacles' = <<>>
    /\ spawn_t' = 0
    /\ next_spawn' = ns
    /\ player' = player
    /\ state' = Playing

\* State::Menu, the body of `if jump_pressed`.
MenuStart(screen_w, ground_y, ns) ==
    /\ score' = 0
    /\ speed' = Px(BASE_SPEED)
    /\ obstacles' = <<>>
    /\ spawn_t' = 0
    /\ next_spawn' = ns
    /\ player' = PlayerNew(screen_w, ground_y)
    /\ state' = Playing

MenuFrame ==
    /\ state = Menu
    /\ \E d \in DtSet, scr \in ScreenSet,
          inp \in JumpInputs :
        /\ ReadInputs(d, scr, inp[1], inp[2], FALSE)
        /\ IF JumpPressed(inp[1], inp[2])
           THEN \E ns \in GenRange(SPAWN_MIN, SPAWN_MAX) :
                    MenuStart(Px(scr[1]), GroundY(Px(scr[2])), ns)
           ELSE UNCHANGED <<state, score, speed, obstacles, spawn_t,
                            next_spawn, player>>
    /\ UNCHANGED <<hi_score, tested>>

\* ReturnToMenu discarding the ended run: the obstacles and the player.
ReturnToMenuDiscards ==
    /\ state' = Menu
    /\ obstacles' = <<>>
    /\ player' = None
    /\ UNCHANGED <<score, speed, spawn_t, next_spawn>>

\* State::GameOver, `if is_key_pressed(KeyCode::M) { state = State::Menu; }`
ReturnToMenu ==
    /\ state' = Menu
    /\ UNCHANGED <<score, speed, obstacles, spawn_t, next_spawn, player>>

\* GameOverRestart with `obstacles.clear()` left out.
GameOverRestartKeepsObstacles(screen_w, ground_y, ns) ==
    /\ score' = 0
    /\ speed' = Px(BASE_SPEED)
    /\ obstacles' = obstacles
    /\ spawn_t' = 0
    /\ next_spawn' = ns
    /\ player' = PlayerNew(screen_w, ground_y)
    /\ state' = Playing

\* State::GameOver, the body of `else if jump_pressed`.
GameOverRestart(screen_w, ground_y, ns) ==
    /\ score' = 0
    /\ speed' = Px(BASE_SPEED)
    /\ obstacles' = <<>>
    /\ spawn_t' = 0
    /\ next_spawn' = ns
    /\ player' = PlayerNew(screen_w, ground_y)
    /\ state' = Playing

\* GameOverFrame with the jump signal tested before the M key.
GameOverFrameJumpFirst ==
    /\ state = GameOver
    /\ \E d \in DtSet, scr \in ScreenSet,
          inp \in JumpInputs, m \in BOOLEAN :
        /\ ReadInputs(d, scr, inp[1], inp[2], m)
        /\ IF JumpPressed(inp[1], inp[2])
           THEN \E ns \in GenRange(SPAWN_MIN, SPAWN_MAX) :
                    GameOverRestart(Px(scr[1]), GroundY(Px(scr[2])), ns)
           ELSE IF m
           THEN ReturnToMenu
           ELSE UNCHANGED <<state, score, speed, obstacles, spawn_t,
                            next_spawn, player>>
    /\ UNCHANGED <<hi_score, tested>>

GameOverFrame ==
    /\ state = GameOver
    /\ \E d \in DtSet, scr \in ScreenSet,
          inp \in JumpInputs, m \in BOOLEAN :
        /\ ReadInputs(d, scr, inp[1], inp[2], m)
        /\ IF m
           THEN ReturnToMenu
           ELSE IF JumpPressed(inp[1], inp[2])
           THEN \E ns \in GenRange(SPAWN_MIN, SPAWN_MAX) :
                    GameOverRestart(Px(scr[1]), GroundY(Px(scr[2])), ns)
           ELSE UNCHANGED <<state, score, speed, obstacles, spawn_t,
                            next_spawn, player>>
    /\ UNCHANGED <<hi_score, tested>>

\* State::Playing ---------------------------------------------------------

\* GrowSpeed with `.min(MAX_SPEED)` left out.
GrowSpeedNoCap(spd, d) == spd + (Px(SPEED_GROWTH) * d) \div TICKS

\* Difficulty scaling (capped).
GrowSpeed(spd, d) ==
    Min(spd + (Px(SPEED_GROWTH) * d) \div TICKS, Px(MAX_SPEED))

\* The draws of one spawn, ((width, height), next interval): rand::gen_range
\* for the obstacle's width in 40..70 and height in 50..120, and for the
\* next interval in SPAWN_MIN.max(0.5)..SPAWN_MAX.  A spawn draws the low
\* end of all three ranges or the high end of all three.
SpawnDraws ==
    {<<<<Px(OBSTACLE_W_MIN), Px(OBSTACLE_H_MIN)>>,
       Max(SPAWN_MIN, SPAWN_FLOOR)>>,
     <<<<Px(OBSTACLE_W_MAX), Px(OBSTACLE_H_MAX)>>, SPAWN_MAX>>}

\* CollisionStep with `alive = !overlaps`: the last obstacle decides.
CollisionStepLastDecides(alive, o, prect) ==
    ~Overlaps(ObstacleRect(o), prect)

\* The body of the for loop for one obstacle: the new value of alive.
CollisionStep(alive, o, prect) ==
    IF Overlaps(ObstacleRect(o), prect) THEN FALSE ELSE alive

\* CollisionLoop with the overlap test made before `o.update(dt)`.
RECURSIVE CollisionLoopTestsFirst(_, _, _, _)
CollisionLoopTestsFirst(obs, d, prect, alive) ==
    IF obs = <<>>
    THEN [obstacles |-> <<>>, alive |-> alive]
    ELSE LET o == ObstacleUpdate(Head(obs), d)
             rest == CollisionLoopTestsFirst(Tail(obs), d, prect,
                                   CollisionStep(alive, Head(obs), prect))
         IN  [obstacles |-> <<o>> \o rest.obstacles, alive |-> rest.alive]

\* for o in obstacles.iter_mut(): every obstacle is moved and tested.
RECURSIVE CollisionLoop(_, _, _, _)
CollisionLoop(obs, d, prect, alive) ==
    IF obs = <<>>
    THEN [obstacles |-> <<>>, alive |-> alive]
    ELSE LET o == ObstacleUpdate(Head(obs), d)
             rest == CollisionLoop(Tail(obs), d, prect,
                                   CollisionStep(alive, o, prect))
         IN  [obstacles |-> <<o>> \o rest.obstacles, alive |-> rest.alive]

\* obstacles.retain(|o| !o.offscreen())
Retain(obs) == SelectSeq(obs, LAMBDA o : ~Offscreen(o))

\* score += speed * dt * 0.1
Accrue(sc, spd, d) == sc + spd * d

\* EndRun with `state = State::Menu` for `state = State::GameOver`.
EndRunToMenu(alive, sc) ==
    IF alive
    THEN UNCHANGED <<state, hi_score>>
    ELSE /\ hi_score' = (IF sc > hi_score THEN sc ELSE hi_score)
         /\ state' = Menu

\* EndRun with `hi_score = score` not guarded by `score > hi_score`.
EndRunOverwrites(alive, sc) ==
    IF alive
    THEN UNCHANGED <<state, hi_score>>
    ELSE /\ hi_score' = sc
         /\ state' = GameOver

\* EndRun comparing the score from before the final tick's accrual.
EndRunBeforeAccrual(alive, sc) ==
    IF alive
    THEN UNCHANGED <<state, hi_score>>
    ELSE /\ hi_score' = (IF score > hi_score THEN score ELSE hi_score)
         /\ state' = GameOver

\* if !alive { if score > hi_score { hi_score = score; } state = GameOver }
EndRun(alive, sc) ==
    IF alive
    THEN UNCHANGED <<state, hi_score>>
    ELSE /\ hi_score' = (IF sc > hi_score THEN sc ELSE hi_score)
         /\ state' = GameOver

PlayingFrame ==
    /\ state = Playing
    /\ player # None
    /\ \E d \in DtSet, scr \in ScreenSet,
          inp \in JumpInputs :
        LET ground_y == GroundY(Px(scr[2]))
            p1 == PlayerUpdate(player, d, ground_y, JumpPressed(inp[1], inp[2]))
            spd1 == GrowSpeed(speed, d)
            t1 == spawn_t + d
            spawns == t1 >= next_spawn
        IN  /\ ReadInputs(d, scr, inp[1], inp[2], FALSE)
            /\ player' = p1
            /\ speed' = spd1
            /\ \E r \in (IF spawns THEN SpawnDraws ELSE {<<<<0, 0>>, next_spawn>>}) :
                LET obs1 == IF spawns
                            THEN Append(obstacles,
                                        ObstacleNew(Px(scr[1]) + Px(SPAWN_AHEAD),
                                                    ground_y, spd1, r[1][1], r[1][2]))
                            ELSE obstacles
                    loop == CollisionLoop(obs1, d, PlayerRect(p1), TRUE)
                    sc1 == Accrue(score, spd1, d)
                IN  /\ spawn_t' = (IF spawns THEN 0 ELSE t1)
                    /\ next_spawn' = r[2]
                    /\ tested' = loop.obstacles
                    /\ obstacles' = Retain(loop.obstacles)
                    /\ score' = sc1
                    /\ EndRun(loop.alive, sc1)

Next == MenuFrame \/ PlayingFrame \/ GameOverFrame

Spec == Init /\ [][Next]_vars

\* The life of one obstacle ------------------------------------------------
\* The part of a run that acts on a live obstacle, without the frame bound:
\* a run whose first tick has just pushed an obstacle, followed by ticks
\* that update the player, move and test the obstacle, evict it and end
\* the run on a collision.  Spawning, speed growth and score accrual of
\* these ticks do not touch a live obstacle and are left out.

\* The reset (lines 191-200) and a first tick of length d on which the spawn
\* block pushes Obstacle::new(sw + 40.0, ground_y, speed) (lines 209-217).
ObstacleLifeInit ==
    /\ state = Playing
    /\ score = 0
    /\ hi_score = 0
    /\ spawn_t = 0
    /\ edge_pressed = FALSE
    /\ touch_active = FALSE
    /\ jump_pressed = FALSE
    /\ m_pressed = FALSE
    /\ frames = 0
    /\ resizes = 0
    /\ \E scr \in ScreenSet, d \in DtSet, r \in SpawnDraws :
        /\ sw = Px(scr[1])
        /\ sh = Px(scr[2])
        /\ dt = d
        /\ speed = GrowSpeed(Px(BASE_SPEED), d)
        /\ next_spawn = r[2]
        /\ player = PlayerNew(sw, GroundY(sh))
        /\ obstacles = <<ObstacleNew(sw + Px(SPAWN_AHEAD), GroundY(sh),
                                     speed, r[1][1], r[1][2])>>
        /\ tested = obstacles

\* A later tick of the run: player_ref.update, the for loop over the
\* obstacles, retain, and the end of the run on a collision.
ObstacleTick ==
    /\ state = Playing
    /\ player # None
    /\ \E d \in DtSet, inp \in JumpInputs :
        LET p1 == PlayerUpdate(player, d, GroundY(sh),
                               JumpPressed(inp[1], inp[2]))
            loop == CollisionLoop(obstacles, d, PlayerRect(p1), TRUE)
        IN  /\ dt' = d
            /\ edge_pressed' = inp[1]
            /\ touch_active' = inp[2]
            /\ jump_pressed' = JumpPressed(inp[1], inp[2])
            /\ player' = p1
            /\ tested' = loop.obstacles
            /\ obstacles' = Retain(loop.obstacles)
            /\ EndRun(loop.alive, score)
    /\ UNCHANGED <<score, speed, spawn_t, next_spawn, sw, sh, m_pressed,
                   frames, resizes>>

\* `loop { ... next_frame().await }`: while the state is Playing every
\* frame runs the Playing branch, so ticks keep coming.
ObstacleLifeSpec ==
    ObstacleLifeInit /\ [][ObstacleTick]_vars /\ WF_vars(ObstacleTick)

----------------------------------------------------------------------------
\* Properties

\* Some obstacle of the latest tick's for loop overlaps the player.
Collides ==
    /\ player # None
    /\ \E i \in DOMAIN tested :
           Overlaps(ObstacleRect(tested[i]), PlayerRect(player))

\* The run data that a reset rewrites.
run_data == <<score, speed, spawn_t, next_spawn, obstacles, player>>

\* C1: whenever the game-flow state is Playing a Player exists, so the
\* Playing branch's `expect` never fails.
C1_PlayerExistsWhilePlaying == state = Playing => player # None

\* A second run is being played, after a restart from GameOver.
C1_Witness ==
    state = Playing /\ player # None /\ hi_score > 0 /\ score > 0

\* C2: the state starts in Menu; Menu leaves only to Playing, and exactly
\* on a frame with the jump signal; Playing leaves only to GameOver, and
\* only on a tick with a collision; GameOver leaves to Playing only with
\* the jump signal and to Menu only with the return-to-menu signal.
C2_Edges ==
    /\ state = Menu
    /\ [][
          /\ state = Menu =>
                /\ state' \in {Menu, Playing}
                /\ (state' = Playing) <=> jump_pressed'
          /\ state = Playing =>
                /\ state' \in {Playing, GameOver}
                /\ (state' = GameOver) => Collides'
          /\ (state = GameOver /\ state' = Playing) => jump_pressed'
          /\ (state = GameOver /\ state' = Menu) => m_pressed'
        ]_vars

\* Menu was reached again from GameOver after a run, by the M key.
C2_Witness == state = Menu /\ hi_score > 0 /\ m_pressed

\* C3: every transition into Playing leaves score 0, speed BASE_SPEED, no
\* obstacles, spawn timer 0, a spawn interval within [SPAWN_MIN, SPAWN_MAX],
\* a new grounded Player at 20% of the frame's screen width standing on the
\* frame's ground line with zero velocity, and hi_score as it was.
C3_ResetOnEnteringPlaying ==
    [][(state # Playing /\ state' = Playing) =>
          /\ score' = 0
          /\ speed' = BASE_SPEED * LEN
          /\ obstacles' = <<>>
          /\ spawn_t' = 0
          /\ next_spawn' \in SPAWN_MIN..SPAWN_MAX
          /\ player' # None
          /\ 5 * player'.pos.x = sw'
          /\ player'.pos.y + PLAYER_H * LEN = sh' - GROUND_H * LEN
          /\ player'.vel = [x |-> 0, y |-> 0]
          /\ player'.on_ground
          /\ hi_score' = hi_score
      ]_vars

\* The frame after a restart from GameOver, in a window of another size
\* than the one the ended run was started in.
C3_Witness ==
    /\ state = Playing /\ hi_score > 0 /\ score = 0 /\ obstacles = <<>>
    /\ tested # <<>>
    /\ 5 * player.pos.x = sw
    /\ \E i \in DOMAIN tested :
           tested[i].pos.y + tested[i].size.y # sh - GROUND_H * LEN

\* C4: hi_score never decreases, changes only on the tick that ends a run,
\* and on that tick becomes the larger of its old value and the score.
C4_HiScore ==
    [][
        /\ hi_score' >= hi_score
        /\ (hi_score' # hi_score) => (state = Playing /\ state' = GameOver)
        /\ (state = Playing /\ state' = GameOver) =>
              hi_score' = (IF score' > hi_score THEN score' ELSE hi_score)
      ]_vars

\* A run has ended with a score below the record of an earlier run.
C4_Witness == state = GameOver /\ 0 < score /\ score < hi_score

\* C5: after every Player.update the player's feet are on or above the
\* ground line that was passed to it.
C5_NeverBelowGround ==
    [][state = Playing =>
          player'.pos.y + PLAYER_H * LEN <= sh' - GROUND_H * LEN]_vars

\* A tick has put the player on a ground line that lies above the one it
\* stood on before (the window was made smaller during the run).
C5_Witness ==
    /\ state = Playing /\ score > 0 /\ resizes > 0
    /\ player.on_ground
    /\ player.pos.y + PLAYER_H * LEN = sh - GROUND_H * LEN
    /\ \E i \in DOMAIN obstacles :
           obstacles[i].pos.y + obstacles[i].size.y > sh - GROUND_H * LEN

\* C6: after Player.update, when the player is not moving upward, the
\* grounded flag is true exactly when the feet are on the ground line of
\* that frame, also when the ground line changes between frames.
C6_GroundedIffOnGround ==
    [][state = Playing =>
          (player'.vel.y >= 0 =>
              (player'.on_ground <=>
                  player'.pos.y + PLAYER_H * LEN = sh' - GROUND_H * LEN))
      ]_vars

\* C7: on every Playing tick the speed becomes min(speed + SPEED_GROWTH*dt,
\* MAX_SPEED) and does not decrease; it always lies in [BASE_SPEED,
\* MAX_SPEED]; it goes down only on a transition into Playing, to
\* BASE_SPEED.
C7_SpeedRamp ==
    /\ [](BASE_SPEED * LEN <= speed /\ speed <= MAX_SPEED * LEN)
    /\ [][
          /\ state = Playing =>
                /\ speed' >= speed
                /\ speed' = Min(speed + (SPEED_GROWTH * LEN * dt') \div TICKS,
                                MAX_SPEED * LEN)
          /\ speed' < speed =>
                /\ state # Playing /\ state' = Playing
                /\ speed' = BASE_SPEED * LEN
        ]_vars

\* The ramp has reached its ceiling during a run.
C7_Witness == state = Playing /\ speed = MAX_SPEED * LEN /\ score > 0

\* C8: a Playing tick ends in GameOver exactly when, after that tick's
\* player update and obstacle movement, some live obstacle's collision rect
\* overlaps the player's; otherwise the state stays Playing.
C8_CollisionIsFatal ==
    [][state = Playing =>
          /\ Collides' => state' = GameOver
          /\ ~Collides' => state' = Playing
      ]_vars

\* A tick ended the run: one obstacle reached the player while another,
\* also live, did not.
C8_Witness ==
    /\ state = GameOver /\ Collides
    /\ \E i \in DOMAIN tested :
           ~Overlaps(ObstacleRect(tested[i]), PlayerRect(player))

\* C9: the tick that ends a run resets nothing (its score is the accrued
\* one, its speed the grown one, its player the updated one, its obstacles
\* the moved ones still on screen), and no frame in GameOver or Menu other
\* than a transition into Playing changes the run data.
C9_EndingARunResetsNothing ==
    [][
        /\ (state = Playing /\ state' = GameOver) =>
              /\ score' = score + speed' * dt'
              /\ speed' >= speed
              /\ spawn_t' \in {0, spawn_t + dt'}
              /\ obstacles' = SelectSeq(tested',
                     LAMBDA o : o.pos.x + o.size.x >= OFFSCREEN_X * LEN)
              /\ obstacles' # <<>>
              /\ player' # None /\ player'.pos.x = player.pos.x
        /\ (state = GameOver /\ state' # Playing) => UNCHANGED run_data
        /\ (state = Menu /\ state' # Playing) => UNCHANGED run_data
      ]_vars

\* Back in Menu, the ended run's score, obstacles and player are still
\* there.
C9_Witness ==
    state = Menu /\ score > 0 /\ obstacles # <<>> /\ player # None

\* C10: every obstacle the for loop of a tick has moved is tested against
\* the player, whether or not retain then removes it or another one: if
\* any of them overlaps, the run ends on that tick.
C10_AllTestedBeforeEviction ==
    [][state = Playing =>
          \A i \in DOMAIN tested' :
              Overlaps(ObstacleRect(tested'[i]), PlayerRect(player'))
                  => state' = GameOver
      ]_vars

\* A run ended on a tick whose retain removed an obstacle.
C10_Witness ==
    state = GameOver /\ Collides /\ Len(obstacles) < Len(tested)

\* C11: a Playing tick adds dt to the spawn timer; exactly when the timer
\* has reached next_spawn it appends one obstacle (one per tick, whatever
\* dt), created at sw + 40 with the speed already grown on this tick (the
\* loop of the same tick then moves it by speed * dt), sets the timer to 0
\* and draws the next interval within [max(SPAWN_MIN, 0.5), SPAWN_MAX];
\* otherwise no obstacle is added and the interval stays.
C11_SpawnOnTimer ==
    [][state = Playing =>
          IF spawn_t + dt' >= next_spawn
          THEN /\ Len(tested') = Len(obstacles) + 1
               /\ LET o == tested'[Len(tested')]
                  IN  /\ o.speed = speed'
                      /\ o.pos.x + (o.speed * dt') \div TICKS
                             = sw' + SPAWN_AHEAD * LEN
               /\ spawn_t' = 0
               /\ next_spawn' >= SPAWN_MIN /\ next_spawn' >= SPAWN_FLOOR
               /\ next_spawn' <= SPAWN_MAX
          ELSE /\ Len(tested') = Len(obstacles)
               /\ spawn_t' = spawn_t + dt'
               /\ next_spawn' = next_spawn
      ]_vars

\* A stall of many spawn intervals has spawned a single obstacle, with
\* the speed grown during the stall.
C11_Witness ==
    /\ state = Playing /\ dt = 150 /\ spawn_t = 0
    /\ Len(tested) = 1 /\ tested[1].speed = speed
    /\ speed > BASE_SPEED * LEN

\* C12: a tick changes nothing of a live obstacle but pos.x, which it
\* lowers by the obstacle's own speed * dt; speed, size and pos.y stay as
\* created, while the session's speed goes on growing.
C12_ObstacleFixedAtCreation ==
    [][state = Playing =>
          \A i \in DOMAIN obstacles :
              /\ tested'[i].speed = obstacles[i].speed
              /\ tested'[i].size = obstacles[i].size
              /\ tested'[i].pos.y = obstacles[i].pos.y
              /\ tested'[i].pos.x =
                     obstacles[i].pos.x - (obstacles[i].speed * dt') \div TICKS
              /\ tested'[i].speed <= speed
      ]_vars

\* An obstacle spawned on an earlier tick is still live and slower than
\* the session's speed now is.
C12_Witness ==
    /\ state = Playing
    /\ \E i \in DOMAIN obstacles :
           /\ obstacles[i].speed < speed
           /\ obstacles[i].speed > BASE_SPEED * LEN

\* C13: retain removes exactly the obstacles with pos.x + width < -10: no
\* such obstacle is ever in the collection, and after a tick the collection
\* is the moved obstacles with pos.x + width >= -10, in their order.
C13_EvictionIsExact ==
    /\ [](\A i \in DOMAIN obstacles :
             obstacles[i].pos.x + obstacles[i].size.x >= OFFSCREEN_X * LEN)
    /\ [][state = Playing =>
             obstacles' = SelectSeq(tested',
                 LAMBDA o : o.pos.x + o.size.x >= OFFSCREEN_X * LEN)
         ]_vars

\* A tick has evicted one obstacle and kept another whose left edge is
\* already past -10 while its right edge is not.
C13_Witness ==
    /\ state = Playing
    /\ Len(obstacles) < Len(tested)
    /\ \E i \in DOMAIN obstacles : obstacles[i].pos.x < OFFSCREEN_X * LEN

\* C14: a jump is applied only from the ground: while the player is in the
\* air (feet above the ground line at the end of the previous update and
\* above the ground line of this one) the jump signal has no effect on the
\* velocity, which gravity and landing alone change.
C14_NoMidAirJump ==
    [][(/\ state = Playing
        /\ player.pos.y + PLAYER_H * LEN < sh - GROUND_H * LEN
        /\ player.pos.y + PLAYER_H * LEN < sh' - GROUND_H * LEN) =>
          \/ player'.vel.y = 0
          \/ player'.vel.y = player.vel.y + (GRAVITY * LEN * dt') \div TICKS
      ]_vars

\* C15 as claimed: an update with the jump signal on a grounded player at
\* rest leaves grounded false and vel.y = JUMP_VEL + GRAVITY * dt.
C15_JumpLeavesGround ==
    [][(/\ state = Playing /\ jump_pressed'
        /\ player.on_ground /\ player.vel.y = 0) =>
          /\ ~player'.on_ground
          /\ player'.vel.y = JUMP_VEL * LEN + (GRAVITY * LEN * dt') \div TICKS
      ]_vars

\* C15 as amended: such an update leaves grounded false and vel.y =
\* JUMP_VEL + GRAVITY * dt when the position integrated with that velocity
\* is above the ground line; otherwise the same update clamps the player
\* to the ground line with grounded true and vel.y = 0.
C15_JumpLeavesGroundUnlessClamped ==
    [][(/\ state = Playing /\ jump_pressed'
        /\ player.on_ground /\ player.vel.y = 0) =>
          LET v == JUMP_VEL * LEN + (GRAVITY * LEN * dt') \div TICKS
              y == player.pos.y + (v * dt') \div TICKS
          IN  IF y + PLAYER_H * LEN < sh' - GROUND_H * LEN
              THEN /\ ~player'.on_ground
                   /\ player'.vel.y = v
                   /\ player'.pos.y = y
              ELSE /\ player'.on_ground
                   /\ player'.vel.y = 0
                   /\ player'.pos.y + PLAYER_H * LEN = sh' - GROUND_H * LEN
      ]_vars

\* The update of a 0.3 s frame with the jump signal has taken the player
\* off the ground: vel.y = -800 + 1800 * 0.3 = -260.
C15_Witness ==
    /\ state = Playing /\ jump_pressed /\ dt = 3
    /\ ~player.on_ground
    /\ player.vel.y = -260 * LEN
    /\ player.pos.y + PLAYER_H * LEN = sh - GROUND_H * LEN - 78 * LEN

\* C18: whenever the game-flow state is not Playing, hi_score >= score:
\* the final tick's accrual is part of the score that hi_score is
\* compared with.
C18_RecordCoversFinalScore == state # Playing => hi_score >= score

\* A run has ended on a tick that accrued score and set the record to it.
C18_Witness ==
    /\ state = GameOver /\ frames = 2
    /\ score = Accrue(0, speed, dt) /\ score > 0
    /\ hi_score = score

\* C19: on a GameOver frame the M key wins over the jump signal: with both
\* the state becomes Menu and the run data is left as it is; the state
\* becomes Playing exactly on a frame with the jump signal and without M.
C19_MenuKeyWins ==
    [][state = GameOver =>
          /\ ((m_pressed' /\ jump_pressed') =>
                 (state' = Menu /\ UNCHANGED run_data /\ UNCHANGED hi_score))
          /\ ((state' = Playing) <=> (jump_pressed' /\ ~m_pressed'))
      ]_vars

\* A GameOver frame with both signals has led to Menu; the ended run's
\* data is still there.
C19_Witness ==
    /\ state = Menu /\ m_pressed /\ jump_pressed
    /\ score > 0 /\ obstacles # <<>> /\ player # None

\* C16: the jump signal is edge-triggered: a touch that stays on the screen
\* over consecutive frames gives jump_pressed on at most the first of
\* them, unless the key or the button goes down on the later frame.
C16_HeldInputJumpsOnce ==
    [][(touch_active /\ touch_active' /\ ~edge_pressed') => ~jump_pressed'
      ]_vars

\* C17: touching edges count as non-overlapping: a tick ends the run only
\* if some tested obstacle's collision rect and the player's collision
\* rect intersect with positive extent on both axes.
C17_TouchingNeverEndsRun ==
    [][(state = Playing /\ state' = GameOver) =>
          \E i \in DOMAIN tested' :
              LET a == ObstacleRect(tested'[i])
                  b == PlayerRect(player')
              IN  /\ a.x < b.x + b.w
                  /\ a.x + a.w > b.x
                  /\ a.y < b.y + b.h
                  /\ a.y + a.h > b.y
      ]_vars

\* C20: while a run continues with delta-times bounded below by a
\* positive constant (the smallest of DtSet), a live obstacle is eventually
\* removed from the collection, or the run ends first.
C20_EveryObstacleLeaves == <>(obstacles = <<>> \/ state # Playing)

\* The obstacle has been evicted during the run, on a tick after it had
\* already moved in from its spawn position.
C20_Witness ==
    /\ state = Playing /\ obstacles = <<>>
    /\ Len(tested) = 1
    /\ tested[1].pos.x + tested[1].size.x < OFFSCREEN_X * LEN
    /\ tested[1].pos.x + (tested[1].speed * dt) \div TICKS
           < sw + SPAWN_AHEAD * LEN

====
